---------------------------- MODULE Spec2Model ----------------------------
(***************************************************************************)
(* Layered service configuration of the Supervisor                         *)
(* (components/sup/src/manager/service/config.rs): the Cfg aggregator with *)
(* its four layers, their loading in Cfg::new, the recursive TOML merge,   *)
(* the export filter and the CfgRenderer compile pass.                     *)
(***************************************************************************)
EXTENDS Integers, Sequences, FiniteSets, TLC

VARIABLES
    default,            \* Cfg.default            : Option<toml::Value>
    environment,        \* Cfg.environment        : Option<toml::Value>
    user,               \* Cfg.user               : Option<toml::Value>
    gossip,             \* Cfg.gossip             : Option<toml::Value>
    gossip_incarnation, \* Cfg.gossip_incarnation : u64
    max_seen,           \* history: highest incarnation carried by a view passed to update
    first_at_max,       \* history: the first document delivered with incarnation max_seen
    me,                 \* toml_merge: the table merged into (mutated in place)
    other,              \* toml_merge: the table merged from
    files,              \* destination files under pkg.svc_config_path, by template name
    ctx,                \* the RenderContext handed to CfgRenderer::compile
    last_pass,          \* history: the context and the gossip incarnation of the last
                        \* compile pass, if it returned Ok and nothing but the
                        \* Supervisor touched the files since
    disk,               \* the layer files default.toml and user.toml, by path
    env,                \* the environment variables of the process, by name
    templates_path,     \* the template directory handed to CfgRenderer::new
    renderer,           \* CfgRenderer.0: the templates registered, by name
    call                \* the last call made: its name, arguments and return value

vars == <<default, environment, user, gossip, gossip_incarnation, max_seen,
          first_at_max, me, other, files, ctx, last_pass, disk, env,
          templates_path, renderer, call>>

cfgVars == <<default, environment, user, gossip, gossip_incarnation, max_seen,
             first_at_max>>

-----------------------------------------------------------------------------
(* Bounds of the model *)

\* incarnations carried by census views are 0..MaxInc
MaxInc == 3
\* scalar leaves of the generated documents are 1..MaxScalar
MaxScalar == 2
\* the template directory has up to MaxEntries entries
MaxEntries == 3
\* deep documents nest up to TOML_MAX_MERGE_DEPTH + MaxOver tables
MaxOver == 2
\* incarnations of the census views between compile passes are 1..MaxTick
MaxTick == 2

-----------------------------------------------------------------------------
(* toml::Value and Option *)

TOML_MAX_MERGE_DEPTH == 30

\* Option<T>: None is the empty tuple, Some(x) the one-element tuple
None == <<>>
Some(x) == <<x>>
is_some(o) == o /= <<>>
Unwrap(o) == o[1]

\* toml::Value: a tag and a payload (an integer, a sequence of values, or a
\* function from keys to values)
Scalar(x) == <<"scalar", x>>
Array(s) == <<"array", s>>
Table(t) == <<"table", t>>

is_table(value) == value[1] = "table"
is_array(value) == value[1] = "array"
as_table(value) == value[2]

EmptyTable == [k \in {} |-> Scalar(0)]

\* toml::value::Table is a BTreeMap<String, Value>: iteration is in key order
KeyOrder == <<"a", "b", "c", "database", "server">>

Iter(table) == SelectSeq(KeyOrder, LAMBDA k : k \in DOMAIN table)

\* BTreeMap::insert
Insert(table, key, value) ==
    [k \in DOMAIN table \cup {key} |-> IF k = key THEN value ELSE table[k]]

-----------------------------------------------------------------------------
(* toml_merge *)

is_toml_value_a_table(key, table) ==
    IF key \notin DOMAIN table THEN FALSE ELSE is_table(table[key])

Ok(t) == [ok |-> TRUE, me |-> t]
TomlMergeError(t) == [ok |-> FALSE, me |-> t]

\* the number of tables nested below the root of a table
RECURSIVE nested_tables(_)
nested_tables(table) ==
    LET tables == {k \in DOMAIN table : is_table(table[k])}
        below == {nested_tables(as_table(table[k])) : k \in tables}
    IN  IF tables = {} THEN 0
        ELSE 1 + (CHOOSE n \in below : \A m \in below : m <= n)

RECURSIVE toml_merge_recurse(_, _, _)
RECURSIVE merge_keys(_, _, _, _)

\* mutant: a key already present keeps its value unless both sides are tables
merge_keys_keep(table, from, keys, depth) ==
    IF keys = <<>> THEN Ok(table)
    ELSE LET key == Head(keys)
             other_value == from[key]
         IN  IF is_toml_value_a_table(key, table) /\ is_toml_value_a_table(key, from)
             THEN LET r == toml_merge_recurse(as_table(table[key]), as_table(other_value), depth + 1)
                      merged == Insert(table, key, Table(r.me))
                  IN  IF r.ok THEN merge_keys(merged, from, Tail(keys), depth)
                      ELSE TomlMergeError(merged)
             ELSE IF key \in DOMAIN table
                  THEN merge_keys(table, from, Tail(keys), depth)
                  ELSE merge_keys(Insert(table, key, other_value), from, Tail(keys), depth)

\* mutant: the loop returns after the first key it inserts
merge_keys_first(table, from, keys, depth) ==
    IF keys = <<>> THEN Ok(table)
    ELSE LET key == Head(keys)
             other_value == from[key]
         IN  IF is_toml_value_a_table(key, table) /\ is_toml_value_a_table(key, from)
             THEN LET r == toml_merge_recurse(as_table(table[key]), as_table(other_value), depth + 1)
                      merged == Insert(table, key, Table(r.me))
                  IN  IF r.ok THEN merge_keys(merged, from, Tail(keys), depth)
                      ELSE TomlMergeError(merged)
             ELSE Ok(Insert(table, key, other_value))

\* the for loop of toml_merge_recurse over the keys left to visit; `?` leaves
\* the loop at the first nested error, with `table` mutated so far
merge_keys(table, from, keys, depth) ==
    IF keys = <<>> THEN Ok(table)
    ELSE LET key == Head(keys)
             other_value == from[key]
         IN  IF is_toml_value_a_table(key, table) /\ is_toml_value_a_table(key, from)
             THEN LET r == toml_merge_recurse(as_table(table[key]), as_table(other_value), depth + 1)
                      merged == Insert(table, key, Table(r.me))
                  IN  IF r.ok THEN merge_keys(merged, from, Tail(keys), depth)
                      ELSE TomlMergeError(merged)
             ELSE merge_keys(Insert(table, key, other_value), from, Tail(keys), depth)

\* mutant: the depth guard counts the tables nested in the overlay, shared
\* with base or not
toml_merge_recurse_overlay(table, from, depth) ==
    IF depth + nested_tables(from) > TOML_MAX_MERGE_DEPTH THEN TomlMergeError(table)
    ELSE merge_keys(table, from, Iter(from), depth)

\* mutant: the depth guard is off by one
toml_merge_recurse_ge(table, from, depth) ==
    IF depth >= TOML_MAX_MERGE_DEPTH THEN TomlMergeError(table)
    ELSE merge_keys(table, from, Iter(from), depth)

toml_merge_recurse(table, from, depth) ==
    IF depth > TOML_MAX_MERGE_DEPTH THEN TomlMergeError(table)
    ELSE merge_keys(table, from, Iter(from), depth)

toml_merge(table, from) == toml_merge_recurse(table, from, 0)

-----------------------------------------------------------------------------
(* Documents the merge is applied to *)

MergeKeys == {"a", "b"}

Leaves == {Scalar(x) : x \in 1..MaxScalar} \cup {Array(<<Scalar(1)>>)}

\* every table over MergeKeys whose values are drawn from `values`
TablesOver(values) ==
    UNION {[ks -> values] : ks \in SUBSET MergeKeys}

Tables1 == TablesOver(Leaves)
Tables2 == TablesOver(Leaves \cup {Table(t) : t \in Tables1})

\* n tables nested under key "a", the innermost one being `inner`
RECURSIVE Nest(_, _)
Nest(n, inner) == IF n = 0 THEN inner ELSE [k \in {"a"} |-> Table(Nest(n - 1, inner))]

\* a document whose deepest table sits n levels below the root, entered by `key`
Chain(key, n, x) == [k \in {key} |-> Table(Nest(n - 1, [j \in {"b"} |-> Scalar(x)]))]

DeepTables ==
    {Chain(key, n, x) : key \in MergeKeys,
                        n \in (TOML_MAX_MERGE_DEPTH - 1)..(TOML_MAX_MERGE_DEPTH + MaxOver),
                        x \in 1..2}

\* documents that nest as deep under both keys
DeepPairs ==
    {[k \in MergeKeys |-> Chain(k, n, 1)[k]] :
        n \in (TOML_MAX_MERGE_DEPTH - 1)..(TOML_MAX_MERGE_DEPTH + MaxOver)}

MergeTables == Tables2 \cup DeepTables \cup DeepPairs

-----------------------------------------------------------------------------
(* Specification of the merge alone: the arguments are drawn, toml_merge runs *)

NoCall == [op |-> "none"]

IdleCfg ==
    /\ default = None /\ environment = None /\ user = None /\ gossip = None
    /\ gossip_incarnation = 0 /\ max_seen = 0 /\ first_at_max = None

InitMerge ==
    /\ IdleCfg
    /\ me \in MergeTables
    /\ other \in MergeTables
    /\ files = <<>> /\ ctx = 0 /\ last_pass = None
    /\ disk = <<>> /\ env = <<>>
    /\ templates_path = <<>> /\ renderer = None
    /\ call = NoCall

Merge ==
    /\ call.op = "none"
    /\ LET r == toml_merge(me, other)
       IN  /\ me' = r.me
           /\ call' = [op |-> "toml_merge", me |-> me, other |-> other, ok |-> r.ok]
    /\ UNCHANGED <<cfgVars, other, files, ctx, last_pass, disk, env, templates_path, renderer>>

NextMerge == Merge

SpecMerge == InitMerge /\ [][NextMerge]_vars

-----------------------------------------------------------------------------
(* Cfg: the four layers and the gossip incarnation *)

Tbl1(k1, v1) == [k \in {k1} |-> v1]
Tbl2(k1, v1, k2, v2) == [k \in {k1, k2} |-> IF k = k1 THEN v1 ELSE v2]

\* the documents default.toml, HAB_<NAME> and user.toml hold, and the census sends
DefaultDocs ==
    { Tbl2("a", Scalar(1), "b", Scalar(2)),
      Tbl2("a", Scalar(1), "server", Table(Tbl2("database", Scalar(1), "a", Scalar(2)))),
      Tbl2("database", Scalar(2), "c", Array(<<Scalar(1)>>)) }

EnvDocs ==
    { Tbl1("a", Scalar(3)),
      Tbl1("server", Scalar(3)),
      Tbl2("a", Table(Tbl1("b", Scalar(3))), "b", Array(<<Scalar(3)>>)) }

UserDocs ==
    { Tbl1("b", Scalar(4)),
      Tbl1("server", Table(Tbl1("database", Scalar(4)))),
      Tbl2("a", Scalar(4), "c", Table(Tbl1("a", Scalar(4)))),
      Tbl1("server", Table(Tbl2("a", Array(<<Scalar(4)>>), "b", Scalar(4)))) }

GossipDocs ==
    { Tbl1("a", Scalar(5)),
      Tbl1("server", Table(Tbl1("b", Scalar(5)))),
      Tbl2("b", Scalar(5), "database", Scalar(5)) }

Layer(docs) == {None} \cup {Some(Table(t)) : t \in docs}

\* CensusGroup.service_config : Option<ServiceConfig { incarnation, value }>
ServiceConfig(i, t) == [incarnation |-> i, value |-> Table(t)]
Views == {None} \cup {Some(ServiceConfig(i, t)) : i \in 0..MaxInc, t \in GossipDocs}

\* Cfg::new: the three static layers as loaded, no gossip, incarnation 0
CfgNew ==
    /\ default \in Layer(DefaultDocs)
    /\ environment \in Layer(EnvDocs)
    /\ user \in Layer(UserDocs)
    /\ gossip = None
    /\ gossip_incarnation = 0
    /\ max_seen = 0
    /\ first_at_max = None

\* the views passed to update so far: the highest incarnation carried and the
\* first document that came with it
Observe(view) ==
    IF ~is_some(view) THEN UNCHANGED <<max_seen, first_at_max>>
    ELSE LET config == Unwrap(view)
         IN  IF config.incarnation > max_seen \/ ~is_some(first_at_max)
             THEN /\ max_seen' = IF config.incarnation > max_seen
                                  THEN config.incarnation ELSE max_seen
                  /\ first_at_max' = IF config.incarnation >= max_seen
                                      THEN Some(config.value) ELSE first_at_max
             ELSE UNCHANGED <<max_seen, first_at_max>>

\* the record of a call of update: the view, the value returned, whether the
\* call before it was update with the same view, and the gossip layer and
\* incarnation the call found
Updated(census_group, ret) ==
    [op |-> "update", view |-> census_group, ret |-> ret,
     repeated |-> call.op = "update" /\ call.view = census_group,
     before |-> <<gossip, gossip_incarnation>>]

\* mutant: an equal incarnation is accepted too
update_le(census_group) ==
    /\ IF is_some(census_group)
       THEN LET config == Unwrap(census_group)
            IN  IF config.incarnation < gossip_incarnation
                THEN /\ UNCHANGED <<gossip, gossip_incarnation>>
                     /\ call' = Updated(census_group, FALSE)
                ELSE /\ gossip_incarnation' = config.incarnation
                     /\ gossip' = Some(config.value)
                     /\ call' = Updated(census_group, TRUE)
       ELSE /\ UNCHANGED <<gossip, gossip_incarnation>>
            /\ call' = Updated(census_group, FALSE)
    /\ Observe(census_group)
    /\ UNCHANGED <<default, environment, user, me, other, files, ctx, last_pass, disk, env, templates_path, renderer>>

\* mutant: the layer is replaced but the stored incarnation is left behind
update_stale(census_group) ==
    /\ IF is_some(census_group)
       THEN LET config == Unwrap(census_group)
            IN  IF config.incarnation <= gossip_incarnation
                THEN /\ UNCHANGED <<gossip, gossip_incarnation>>
                     /\ call' = Updated(census_group, FALSE)
                ELSE /\ gossip_incarnation' = gossip_incarnation + 1
                     /\ gossip' = Some(config.value)
                     /\ call' = Updated(census_group, TRUE)
       ELSE /\ UNCHANGED <<gossip, gossip_incarnation>>
            /\ call' = Updated(census_group, FALSE)
    /\ Observe(census_group)
    /\ UNCHANGED <<default, environment, user, me, other, files, ctx, last_pass, disk, env, templates_path, renderer>>

\* Cfg::update
\* mutant: the accepted document is stored as the user layer as well
update_user(census_group) ==
    /\ IF is_some(census_group)
       THEN LET config == Unwrap(census_group)
            IN  IF config.incarnation <= gossip_incarnation
                THEN /\ UNCHANGED <<gossip, gossip_incarnation, user>>
                     /\ call' = Updated(census_group, FALSE)
                ELSE /\ gossip_incarnation' = config.incarnation
                     /\ gossip' = Some(config.value)
                     /\ user' = Some(config.value)
                     /\ call' = Updated(census_group, TRUE)
       ELSE /\ UNCHANGED <<gossip, gossip_incarnation, user>>
            /\ call' = Updated(census_group, FALSE)
    /\ Observe(census_group)
    /\ UNCHANGED <<default, environment, me, other, files, ctx, last_pass, disk, env, templates_path, renderer>>

update(census_group) ==
    /\ IF is_some(census_group)
       THEN LET config == Unwrap(census_group)
            IN  IF config.incarnation <= gossip_incarnation
                THEN /\ UNCHANGED <<gossip, gossip_incarnation>>
                     /\ call' = Updated(census_group, FALSE)
                ELSE /\ gossip_incarnation' = config.incarnation
                     /\ gossip' = Some(config.value)
                     /\ call' = Updated(census_group, TRUE)
       ELSE /\ UNCHANGED <<gossip, gossip_incarnation>>
            /\ call' = Updated(census_group, FALSE)
    /\ Observe(census_group)
    /\ UNCHANGED <<default, environment, user, me, other, files, ctx, last_pass, disk, env, templates_path, renderer>>

Update == \E view \in Views : update(view)

-----------------------------------------------------------------------------
(* impl Serialize for Cfg *)

\* mutant: a layer whose merge fails is dropped whole
merge_layer_discard(table, layer) ==
    IF is_some(layer) /\ is_table(Unwrap(layer))
    THEN IF toml_merge(table, as_table(Unwrap(layer))).ok
         THEN toml_merge(table, as_table(Unwrap(layer))).me
         ELSE table
    ELSE table

\* one `if let Some(Table(..))` block: an absent layer is skipped, a merge
\* error is logged and the table is used as the failed merge left it
merge_layer(table, layer) ==
    IF is_some(layer) /\ is_table(Unwrap(layer))
    THEN toml_merge(table, as_table(Unwrap(layer))).me
    ELSE table

\* mutant: the user layer is merged before the environment layer
merged_table_user_first(d, e, u, g) ==
    merge_layer(merge_layer(merge_layer(merge_layer(EmptyTable, d), u), e), g)

merged_table(d, e, u, g) ==
    merge_layer(merge_layer(merge_layer(merge_layer(EmptyTable, d), e), u), g)

\* the pass a value is emitted in
Bucket(v) == IF is_table(v) THEN "tables" ELSE IF is_array(v) THEN "arrays" ELSE "scalars"

\* mutant: a table is handed to the serializer without what it holds
Entries_shallow(table, bucket) ==
    LET keys == SelectSeq(Iter(table), LAMBDA k : Bucket(table[k]) = bucket)
    IN  [i \in 1..Len(keys) |->
            <<keys[i], IF is_table(table[keys[i]]) THEN Table(EmptyTable)
                       ELSE table[keys[i]]>>]

\* one `for (k, v) in &table` pass: the entries of one bucket, in key order;
\* serialize_value(&v) hands each value over as it is in the table
Entries(table, bucket) ==
    LET keys == SelectSeq(Iter(table), LAMBDA k : Bucket(table[k]) = bucket)
    IN  [i \in 1..Len(keys) |-> <<keys[i], table[keys[i]]>>]

\* mutant: one pass, every entry in the order of the merged table
serialize_one_pass(d, e, u, g) ==
    LET table == merged_table(d, e, u, g)
    IN  [i \in 1..Len(Iter(table)) |-> <<Iter(table)[i], table[Iter(table)[i]]>>]

\* the entries handed to the serializer: scalars, then arrays, then tables
serialize(d, e, u, g) ==
    LET table == merged_table(d, e, u, g)
    IN  Entries(table, "scalars") \o Entries(table, "arrays") \o Entries(table, "tables")

\* toml::Value::try_from(&cfg): the map the serialized entries make
try_from(entries) ==
    Table([k \in {entries[i][1] : i \in 1..Len(entries)} |->
              LET i == CHOOSE j \in 1..Len(entries) : entries[j][1] = k
              IN  entries[i][2]])

Serialize ==
    /\ call' = [op |-> "serialize",
                entries |-> serialize(default, environment, user, gossip)]
    /\ UNCHANGED <<cfgVars, me, other, files, ctx, last_pass, disk, env, templates_path, renderer>>

-----------------------------------------------------------------------------
(* Cfg::to_exported *)

\* toml::Value::get with a string index: only a table has keys
get(value, field) ==
    IF is_table(value) /\ field \in DOMAIN as_table(value)
    THEN Some(as_table(value)[field]) ELSE None

\* the loop over the fields of one path: <<curr, found>> after the last field
RECURSIVE walk(_, _, _)
walk(curr, found, fields) ==
    IF fields = <<>> THEN <<curr, found>>
    ELSE LET val == get(curr, Head(fields))
         IN  IF is_some(val) THEN walk(Unwrap(val), TRUE, Tail(fields))
             ELSE walk(curr, FALSE, Tail(fields))

\* pkg.exports maps an export name to a dotted path, here split at the dots
to_exported(cfg, exports) ==
    LET found == {key \in DOMAIN exports : walk(cfg, FALSE, exports[key])[2]}
    IN  [key \in found |-> walk(cfg, FALSE, exports[key])[1]]

ExportMaps ==
    { Tbl1("db", <<"server", "database">>),
      Tbl1("x", <<"a", "b">>),
      Tbl1("x", <<"c">>),
      Tbl2("db", <<"server", "database">>, "x", <<"a">>),
      Tbl1("db", <<"server", "a", "database">>) }

ToExported ==
    /\ \E exports \in ExportMaps :
          call' = [op |-> "to_exported", exports |-> exports,
                   map |-> to_exported(try_from(serialize(default, environment, user, gossip)),
                                       exports)]
    /\ UNCHANGED <<cfgVars, me, other, files, ctx, last_pass, disk, env, templates_path, renderer>>

-----------------------------------------------------------------------------
(* Specification of the aggregator: construction, then any calls *)

Init ==
    /\ CfgNew
    /\ me = EmptyTable /\ other = EmptyTable
    /\ files = <<>> /\ ctx = 0 /\ last_pass = None
    /\ disk = <<>> /\ env = <<>>
    /\ templates_path = <<>> /\ renderer = None
    /\ call = NoCall

Next == Update \/ Serialize \/ ToExported

Spec == Init /\ [][Next]_vars

-----------------------------------------------------------------------------
(* Specification of the aggregator over layers that nest beyond the depth bound *)

\* layers that nest tables under key b, to the bound and beyond it, between
\* keys that hold scalars
DeepDefaultDocs ==
    {Chain("b", n, 1) @@ Tbl1("a", Scalar(1)) :
        n \in TOML_MAX_MERGE_DEPTH..(TOML_MAX_MERGE_DEPTH + MaxOver)}

DeepEnvDocs ==
    {Chain("b", n, 3) @@ Tbl2("a", Scalar(3), "c", Scalar(3)) :
        n \in TOML_MAX_MERGE_DEPTH..(TOML_MAX_MERGE_DEPTH + MaxOver)}

DeepUserDocs ==
    {Tbl1("c", Scalar(4)), Tbl1("database", Scalar(4))}
    \cup {Chain("b", n, 4) @@ Tbl2("a", Scalar(4), "server", Scalar(4)) :
            n \in TOML_MAX_MERGE_DEPTH..(TOML_MAX_MERGE_DEPTH + MaxOver)}

InitDeep ==
    /\ default \in Layer(DeepDefaultDocs)
    /\ environment \in Layer(DeepEnvDocs)
    /\ user \in Layer(DeepUserDocs)
    /\ gossip = None
    /\ gossip_incarnation = 0 /\ max_seen = 0 /\ first_at_max = None
    /\ me = EmptyTable /\ other = EmptyTable
    /\ files = <<>> /\ ctx = 0 /\ last_pass = None
    /\ disk = <<>> /\ env = <<>>
    /\ templates_path = <<>> /\ renderer = None
    /\ call = NoCall

NextDeep == Update \/ Serialize

SpecDeep == InitDeep /\ [][NextDeep]_vars

-----------------------------------------------------------------------------
(* Cfg::new: the layers are read from the disk and the process environment *)

\* a text, by what the two parsers make of it: the table toml::de::from_str
\* returns and the table serde_json::from_str returns, None where the parser
\* rejects the text; no text is both a TOML document and a JSON object
Text(toml, json) == <<"text", toml, json>>
TomlText(t) == Text(Some(t), None)
JsonText(t) == Text(None, Some(t))
Garbage == Text(None, None)

toml_from_str(text) == text[2]
json_from_str(text) == text[3]

\* what a path of the disk is
Missing == <<"missing">>         \* no such file: File::open fails, not found
Denied == <<"denied">>           \* the file is there, File::open fails
Unreadable == <<"unreadable">>   \* the file opens, read_to_string fails
Holds(text) == <<"holds", text>> \* the file opens and reads as text

Paths ==
    { <<"pkg", "default.toml">>, <<"from", "default.toml">>,
      <<"user", "user.toml">>, <<"svc", "user.toml">> }

At(path) == IF path \in DOMAIN disk THEN disk[path] ELSE Missing

\* Path::exists
exists(path) == At(path) /= Missing

\* PackageConfigPaths of a package of the given name
default_config_dir(package) == "pkg"
recommended_user_config_dir(package) == "user"
deprecated_user_config_dir(package) == "svc"

\* the results of the loaders
NoError == <<"none">>
Loaded(value) == [ok |-> TRUE, value |-> value, err |-> NoError]
Failed(error) == [ok |-> FALSE, value |-> None, err |-> error]

load_toml_file(dir, file) ==
    LET path == <<dir, file>>
    IN  IF At(path) \in {Missing, Denied} THEN Loaded(None)
        ELSE IF At(path) = Unreadable THEN Loaded(None)
        ELSE LET toml == toml_from_str(At(path)[2])
             IN  IF is_some(toml) THEN Loaded(Some(Table(Unwrap(toml))))
                 ELSE Failed(<<"TomlParser">>)

load_default(config_from) == load_toml_file(config_from, "default.toml")

load_user(path) == load_toml_file(path, "user.toml")

\* mutant: the deprecated directory is looked at first
determine_user_config_path_deprecated_first(package) ==
    LET recommended_dir == recommended_user_config_dir(package)
        deprecated_dir == deprecated_user_config_dir(package)
    IN  IF exists(<<deprecated_dir, "user.toml">>)
        THEN [dir |-> deprecated_dir, notice |-> TRUE]
        ELSE [dir |-> recommended_dir, notice |-> FALSE]

\* the directory user.toml is loaded from, and whether the deprecation notice
\* is printed
determine_user_config_path(package) ==
    LET recommended_dir == recommended_user_config_dir(package)
        deprecated_dir == deprecated_user_config_dir(package)
    IN  IF exists(<<recommended_dir, "user.toml">>)
        THEN [dir |-> recommended_dir, notice |-> FALSE]
        ELSE IF exists(<<deprecated_dir, "user.toml">>)
        THEN [dir |-> deprecated_dir, notice |-> TRUE]
        ELSE [dir |-> recommended_dir, notice |-> FALSE]

\* names are sequences of characters
ENV_VAR_PREFIX == <<"H", "A", "B">>

to_ascii_uppercase(str) ==
    [i \in DOMAIN str |->
        CASE str[i] = "d" -> "D" [] str[i] = "b" -> "B" [] str[i] = "m" -> "M"
          [] str[i] = "y" -> "Y" [] OTHER -> str[i]]

replace(str, from, to) == [i \in DOMAIN str |-> IF str[i] = from THEN to ELSE str[i]]

var_name_of(package) ==
    replace(to_ascii_uppercase(ENV_VAR_PREFIX \o <<"_">> \o package), "-", "_")

\* the value of a variable: a text, or bytes that are not Unicode
NotUnicode == <<"not unicode">>

\* env::var
NotPresent == [ok |-> FALSE, value |-> Garbage]
var(name) ==
    IF name \notin DOMAIN env \/ env[name] = NotUnicode THEN NotPresent
    ELSE [ok |-> TRUE, value |-> env[name]]

\* the result, with the parsers that were tried, in order
load_environment(package) ==
    LET var_name == var_name_of(package)
        config == var(var_name)
    IN  IF ~config.ok THEN [res |-> Loaded(None), tried |-> <<>>]
        ELSE LET toml == toml_from_str(config.value)
                 json == json_from_str(config.value)
             IN  IF is_some(toml)
                 THEN [res |-> Loaded(Some(Table(Unwrap(toml)))), tried |-> <<"toml">>]
                 ELSE IF is_some(json)
                 THEN [res |-> Loaded(Some(Table(Unwrap(json)))),
                       tried |-> <<"toml", "json">>]
                 ELSE [res |-> Failed(<<"BadEnvConfig", var_name>>),
                       tried |-> <<"toml", "json">>]

\* Cfg::new: the first loader that fails ends it
new(package, config_from) ==
    LET pkg_root == IF is_some(config_from) THEN Unwrap(config_from)
                    ELSE default_config_dir(package)
        default_layer == load_default(pkg_root)
        user_config_path == determine_user_config_path(package)
        user_layer == load_user(user_config_path.dir)
        environment_layer == load_environment(package)
        steps == IF ~default_layer.ok THEN <<"default">>
                 ELSE IF ~user_layer.ok THEN <<"default", "path", "user">>
                 ELSE <<"default", "path", "user", "environment">>
        err == IF ~default_layer.ok THEN default_layer.err
               ELSE IF ~user_layer.ok THEN user_layer.err
               ELSE environment_layer.res.err
    IN  [ok |-> err = NoError, err |-> err, steps |-> steps,
         default |-> default_layer.value, user |-> user_layer.value,
         environment |-> environment_layer.res.value,
         pkg_root |-> pkg_root,
         user_dir |-> user_config_path.dir, notice |-> user_config_path.notice,
         tried |-> environment_layer.tried]

PkgNames == {<<"d", "b">>, <<"m", "y", "-", "d", "b">>}

New ==
    /\ call.op = "none"
    /\ \E package \in PkgNames, config_from \in {None, Some("from")} :
         LET cfg == new(package, config_from)
             reached(step) == \E i \in DOMAIN cfg.steps : cfg.steps[i] = step
         IN  /\ IF cfg.ok
                THEN /\ default' = cfg.default
                     /\ user' = cfg.user
                     /\ environment' = cfg.environment
                ELSE UNCHANGED <<default, user, environment>>
             /\ call' = [op |-> "new", package |-> package, config_from |-> config_from,
                         ok |-> cfg.ok, err |-> cfg.err, pkg_root |-> cfg.pkg_root,
                         \* the steps that ran, and what they did
                         steps |-> cfg.steps,
                         user_dir |-> IF reached("path") THEN Some(cfg.user_dir) ELSE None,
                         notice |-> reached("path") /\ cfg.notice,
                         tried |-> IF reached("environment") THEN cfg.tried ELSE <<>>]
    /\ UNCHANGED <<gossip, gossip_incarnation, max_seen, first_at_max, me, other,
                   files, ctx, last_pass, disk, env, templates_path, renderer>>

\* what default.toml and user.toml may be, and the variables of the environment
DiskDocs == {Tbl1("a", Scalar(1)), Tbl1("b", Scalar(4))}
FileStates ==
    {Missing, Denied, Unreadable, Holds(Garbage)} \cup {Holds(TomlText(t)) : t \in DiskDocs}

EnvNames == {var_name_of(package) : package \in PkgNames}
            \cup {ENV_VAR_PREFIX \o <<"_">> \o package : package \in PkgNames}
EnvValues ==
    {NotUnicode, Garbage, TomlText(Tbl1("a", Scalar(3))), JsonText(Tbl1("a", Scalar(3))),
     TomlText(EmptyTable)}

OneVar(name, value) == [n \in {name} |-> value]

InitNew ==
    /\ IdleCfg
    /\ me = EmptyTable /\ other = EmptyTable
    /\ files = <<>> /\ ctx = 0 /\ last_pass = None
    /\ disk \in [Paths -> FileStates]
    /\ disk[<<"from", "default.toml">>] \in {Missing, Holds(Garbage), Holds(TomlText(Tbl1("b", Scalar(4))))}
    /\ env \in {<<>>} \cup {OneVar(name, value) : name \in EnvNames, value \in EnvValues}
    /\ templates_path = <<>> /\ renderer = None
    /\ call = NoCall

NextNew == New

SpecNew == InitNew /\ [][NextNew]_vars

-----------------------------------------------------------------------------
(* CfgRenderer::new: the templates of a directory are registered *)

\* file names are sequences of bytes; FF and FE are not UTF-8
InvalidBytes == {"FF", "FE"}
FileNames == {<<"a">>, <<"b">>, <<"c", "FF">>, <<"c", "FE">>}

\* OsStr::to_string_lossy: what is not UTF-8 becomes U+FFFD
to_string_lossy(name) ==
    [i \in DOMAIN name |-> IF name[i] \in InvalidBytes THEN "U+FFFD" ELSE name[i]]

\* an entry of the directory: its name and what read_dir and file_type make
\* of it
\*   file       a regular file that holds a template
\*   malformed  a regular file that holds no template
\*   dir        a directory
\*   other      a symbolic link, a socket, a pipe, a device
\*   entry_err  a regular file that holds a template; read_dir yields Err for it
\*   type_err   a regular file that holds a template; file_type returns Err
EntryKinds == {"file", "malformed", "dir", "other", "entry_err", "type_err"}
Entry(name, kind) == <<name, kind>>

file_name(entry) == entry[1]
path(entry) == <<"templates", entry[1]>>
is_regular(entry) == entry[2] \in {"file", "malformed", "entry_err", "type_err"}

\* the template directory: whether read_dir can read it, and its entries in
\* the order read_dir yields them
Directory(readable, entries) == [readable |-> readable, entries |-> entries]

\* TemplateRenderer::register_template_file: the template is kept under the
\* name, in the place of one registered under that name before; a file that
\* holds no template is an error
register_template_file(registry, name, entry) ==
    IF entry[2] = "malformed" THEN [ok |-> FALSE, registry |-> registry]
    ELSE [ok |-> TRUE,
          registry |-> [n \in DOMAIN registry \cup {name} |->
                           IF n = name THEN path(entry) ELSE registry[n]]]

\* TemplateRenderer::new()
NoTemplates == [n \in {} |-> <<>>]

RECURSIVE register_entries_skip(_, _)
RECURSIVE register_entries(_, _)

\* mutant: a file that does not register is skipped
register_entries_skip(registry, entries) ==
    IF entries = <<>> THEN [ok |-> TRUE, registry |-> registry]
    ELSE LET entry == Head(entries)
         IN  IF entry[2] \in {"entry_err", "type_err", "dir", "other"}
             THEN register_entries_skip(registry, Tail(entries))
             ELSE LET name == to_string_lossy(file_name(entry))
                      r == register_template_file(registry, name, entry)
                  IN  register_entries_skip(r.registry, Tail(entries))

\* the loop over the entries; `?` ends it at the first file that does not
\* register
register_entries(registry, entries) ==
    IF entries = <<>> THEN [ok |-> TRUE, registry |-> registry]
    ELSE LET entry == Head(entries)
         IN  IF entry[2] = "entry_err" THEN register_entries(registry, Tail(entries))
             ELSE IF entry[2] = "type_err" THEN register_entries(registry, Tail(entries))
             ELSE IF entry[2] \in {"dir", "other"}
             THEN register_entries(registry, Tail(entries))
             ELSE LET name == to_string_lossy(file_name(entry))
                      r == register_template_file(registry, name, entry)
                  IN  IF ~r.ok THEN r
                      ELSE register_entries(r.registry, Tail(entries))

\* CfgRenderer::new: a directory that read_dir cannot read has no templates
CfgRenderer_new(directory) ==
    IF ~directory.readable THEN [ok |-> TRUE, registry |-> NoTemplates]
    ELSE register_entries(NoTemplates, directory.entries)

NewRenderer ==
    /\ call.op = "none"
    /\ LET r == CfgRenderer_new(templates_path)
       IN  /\ renderer' = IF r.ok THEN Some(r.registry) ELSE None
           /\ call' = [op |-> "CfgRenderer::new", ok |-> r.ok,
                       err |-> IF r.ok THEN NoError ELSE <<"TemplateFileError">>]
    /\ UNCHANGED <<cfgVars, me, other, files, ctx, last_pass, disk, env, templates_path>>

\* the listings of up to MaxEntries entries, no name twice
Listings ==
    UNION {{entries \in [1..n -> FileNames \X EntryKinds] :
               \A i, j \in 1..n : i /= j => entries[i][1] /= entries[j][1]}
           : n \in 0..MaxEntries}

InitRenderer ==
    /\ IdleCfg
    /\ me = EmptyTable /\ other = EmptyTable
    /\ files = <<>> /\ ctx = 0 /\ last_pass = None
    /\ disk = <<>> /\ env = <<>>
    /\ templates_path \in {Directory(readable, entries) :
                              readable \in BOOLEAN, entries \in Listings}
    /\ renderer = None
    /\ call = NoCall

NextRenderer == NewRenderer

SpecRenderer == InitRenderer /\ [][NextRenderer]_vars

-----------------------------------------------------------------------------
(* CfgRenderer::compile *)

\* the registered templates: t1 prints cfg.a, t2 passes cfg.b to a helper
\* that fails without a value
Templates == {"t1", "t2"}

EmptyText == 0

Rendered(text) == [ok |-> TRUE, text |-> text]
RenderError == [ok |-> FALSE]

\* TemplateRenderer::render
render(template, context) ==
    LET field == IF template = "t1" THEN "a" ELSE "b"
        val == get(context, field)
    IN  IF is_some(val) /\ ~is_table(Unwrap(val)) /\ ~is_array(Unwrap(val))
        THEN Rendered(Unwrap(val)[2])
        ELSE IF template = "t1" THEN Rendered(EmptyText) ELSE RenderError

\* a destination file: its content if it exists, and what the file system
\* lets the Supervisor do with it
\*   rw   read and written          wo   written but not read
\*   ro   read, File::create fails  full File::create truncates, write_all fails
Modes == {"rw", "wo", "ro", "full"}
Absent(mode) == [content |-> None, mode |-> mode]
Present(text, mode) == [content |-> Some(text), mode |-> mode]

\* what somebody else may leave in the place of a destination file: no file,
\* an empty file, or the same file under another mode
OutsideStates(file) ==
    {Absent("rw"), Absent("ro"), Present(EmptyText, "rw")}
    \cup (IF is_some(file.content) THEN {[file EXCEPT !.mode = m] : m \in Modes} ELSE {})

\* crypto::hash::hash_string: a digest, never the empty string
hash_string(text) == <<"blake2b", text>>

\* crypto::hash::hash_file: Err unless the file can be opened and read
hash_file(file) ==
    IF is_some(file.content) /\ file.mode /= "wo"
    THEN Some(hash_string(Unwrap(file.content))) ELSE None

\* String::new()
EmptyHash == <<>>

\* the state of one pass: the files, the changed flag, what was touched
Pass(fs, changed, touched, written, err) ==
    [files |-> fs, changed |-> changed, touched |-> touched, written |-> written,
     err |-> err]

\* mutant: the file is opened without being truncated, so what it held beyond
\* the new text stays
write_file_no_truncate(pass, template, compiled) ==
    LET file == pass.files[template]
        left == IF compiled = EmptyText /\ is_some(file.content)
                THEN Unwrap(file.content) ELSE compiled
    IN  IF file.mode = "ro"
        THEN [pass EXCEPT !.err = "io"]
        ELSE IF file.mode = "full"
        THEN [pass EXCEPT !.touched = @ \cup {template},
                          !.err = "io"]
        ELSE [pass EXCEPT !.files[template] = Present(left, file.mode),
                          !.touched = @ \cup {template},
                          !.written = @ \cup {template},
                          !.changed = TRUE]

\* File::create(&cfg_dest)? and config_file.write_all(..)? for one template
write_file(pass, template, compiled) ==
    LET file == pass.files[template]
    IN  IF file.mode = "ro"
        THEN [pass EXCEPT !.err = "io"]
        ELSE IF file.mode = "full"
        THEN [pass EXCEPT !.files[template] = Present(EmptyText, file.mode),
                          !.touched = @ \cup {template},
                          !.err = "io"]
        ELSE [pass EXCEPT !.files[template] = Present(compiled, file.mode),
                          !.touched = @ \cup {template},
                          !.written = @ \cup {template},
                          !.changed = TRUE]

\* mutant: a file that could not be hashed is written without being reported
compile_template_quiet(pass, template, context) ==
    LET compiled == render(template, context)
        file == pass.files[template]
    IN  IF ~compiled.ok THEN [pass EXCEPT !.err = "render"]
        ELSE LET compiled_hash == hash_string(compiled.text)
                 file_hash == IF is_some(hash_file(file))
                              THEN Unwrap(hash_file(file)) ELSE EmptyHash
             IN  IF file_hash = EmptyHash
                 THEN [write_file(pass, template, compiled.text)
                          EXCEPT !.changed = pass.changed]
                 ELSE IF file_hash = compiled_hash THEN pass
                 ELSE write_file(pass, template, compiled.text)

\* mutant: a file that exists and can be read is never rewritten
compile_template_absent_only(pass, template, context) ==
    LET compiled == render(template, context)
        file == pass.files[template]
    IN  IF ~compiled.ok THEN [pass EXCEPT !.err = "render"]
        ELSE IF is_some(hash_file(file)) THEN pass
        ELSE write_file(pass, template, compiled.text)

\* mutant: an existing file is rewritten whatever its hash
compile_template_always(pass, template, context) ==
    LET compiled == render(template, context)
    IN  IF ~compiled.ok THEN [pass EXCEPT !.err = "render"]
        ELSE write_file(pass, template, compiled.text)

\* the body of the loop over the templates
compile_template(pass, template, context) ==
    LET compiled == render(template, context)
        file == pass.files[template]
    IN  IF ~compiled.ok THEN [pass EXCEPT !.err = "render"]
        ELSE LET compiled_hash == hash_string(compiled.text)
                 file_hash == IF is_some(hash_file(file))
                              THEN Unwrap(hash_file(file)) ELSE EmptyHash
             IN  IF file_hash = EmptyHash
                 THEN write_file(pass, template, compiled.text)
                 ELSE IF file_hash = compiled_hash THEN pass
                 ELSE write_file(pass, template, compiled.text)

\* the loop, in the order get_templates() yields; `?` ends it at the first error
RECURSIVE compile(_, _, _)
compile(pass, order, context) ==
    IF order = <<>> \/ pass.err /= "none" THEN pass
    ELSE compile(compile_template(pass, Head(order), context), Tail(order), context)

\* the orders a HashMap of the templates may be iterated in
Orders == {<<"t1", "t2">>, <<"t2", "t1">>}

Compile ==
    \E order \in Orders :
        LET context == try_from(serialize(default, environment, user, gossip))
            pass == compile(Pass(files, FALSE, {}, {}, "none"), order, context)
        IN  /\ ctx' = context
            /\ files' = pass.files
            /\ call' = [op |-> "compile", ok |-> pass.err = "none", err |-> pass.err,
                        changed |-> pass.changed, touched |-> pass.touched,
                        written |-> pass.written,
                        \* the files as the pass found them
                        before |-> files,
                        \* the call before this one was a pass that returned
                        \* Ok, made with the same context
                        again |-> call.op = "compile" /\ call.ok /\ ctx = context,
                        \* the context and the incarnation of the last pass, if it
                        \* returned Ok and no one else touched the files since
                        since |-> last_pass]
            /\ last_pass' = IF pass.err = "none"
                            THEN Some([context |-> context,
                                       incarnation |-> gossip_incarnation])
                            ELSE None
            /\ UNCHANGED <<cfgVars, me, other, disk, env, templates_path, renderer>>

\* anything else that changes a destination file or what may be done with it
Outside ==
    /\ \E template \in Templates :
        \E file \in OutsideStates(files[template]) \ {files[template]} :
          /\ files' = [files EXCEPT ![template] = file]
    /\ call' = [op |-> "outside"]
    /\ last_pass' = None
    /\ UNCHANGED <<cfgVars, me, other, ctx, disk, env, templates_path, renderer>>

\* the documents the census sends while the service is compiled
TickDocs ==
    { Tbl1("c", Scalar(5)),
      Tbl1("a", Scalar(5)),
      Tbl2("a", Scalar(5), "c", Scalar(5)),
      Tbl2("a", Scalar(5), "b", Scalar(5)) }

Ticks == {None} \cup {Some(ServiceConfig(i, t)) : i \in 1..MaxTick, t \in TickDocs}

\* the census sends a view without an entry for the service, or one with an
\* incarnation above the stored one
Tick ==
    \E view \in Ticks :
        /\ is_some(view) => Unwrap(view).incarnation > gossip_incarnation
        /\ update(view)

InitCompile ==
    /\ default \in {None, Some(Table(Tbl1("b", Scalar(2))))}
    /\ environment = None /\ user = None /\ gossip = None
    /\ gossip_incarnation = 0 /\ max_seen = 0 /\ first_at_max = None
    /\ me = EmptyTable /\ other = EmptyTable
    /\ files = [t \in Templates |-> Absent("rw")]
    /\ ctx = Table(EmptyTable)
    /\ last_pass = None
    /\ disk = <<>> /\ env = <<>>
    /\ templates_path = <<>> /\ renderer = None
    /\ call = NoCall

NextCompile == Tick \/ Compile \/ Outside

SpecCompile == InitCompile /\ [][NextCompile]_vars

-----------------------------------------------------------------------------
(* Properties of the aggregator *)

Max(S) == CHOOSE x \in S : \A y \in S : y <= x

\* C1: update replaces the gossip layer and the stored incarnation and returns
\* true exactly when the view carries an entry with an incarnation strictly
\* greater than the stored one; otherwise it returns false and leaves both.
C1_UpdateAcceptsOnlyNewer ==
    [][call'.op = "update" =>
         LET view == call'.view
         IN  IF is_some(view) /\ Unwrap(view).incarnation > gossip_incarnation
             THEN /\ gossip' = Some(Unwrap(view).value)
                  /\ gossip_incarnation' = Unwrap(view).incarnation
                  /\ call'.ret = TRUE
             ELSE /\ gossip' = gossip
                  /\ gossip_incarnation' = gossip_incarnation
                  /\ call'.ret = FALSE]_vars

\* an update accepted with an incarnation above 1, now the stored one
C1_Witness ==
    /\ call.op = "update" /\ call.ret = TRUE
    /\ Unwrap(call.view).incarnation > 1
    /\ gossip_incarnation = Unwrap(call.view).incarnation
    /\ gossip = Some(Unwrap(call.view).value)

\* C2 as stated: the stored incarnation is the highest incarnation passed so
\* far (0 when none), and the gossip layer holds the document delivered with it.
C2_HoldsDocumentOfHighest ==
    /\ gossip_incarnation = max_seen
    /\ is_some(first_at_max) => gossip = first_at_max

\* C2 (amended): the stored incarnation is the maximum of 0 and all
\* incarnations passed so far; while that maximum is 0 the gossip layer is
\* empty, also when a view carried incarnation 0, and otherwise it holds the
\* first document delivered with that highest incarnation.
C2_HighestIncarnationHeld ==
    /\ gossip_incarnation = max_seen
    /\ gossip = IF max_seen = 0 THEN None ELSE first_at_max

\* a lower incarnation was passed after the highest one and changed nothing
C2_Witness ==
    /\ call.op = "update" /\ call.ret = FALSE
    /\ is_some(call.view)
    /\ Unwrap(call.view).incarnation > 0
    /\ Unwrap(call.view).incarnation < gossip_incarnation
    /\ gossip = first_at_max
    /\ gossip /= Some(Unwrap(call.view).value)

\* the layers in ascending precedence, absent layers left out
LayerTables ==
    LET layers == <<default, environment, user, gossip>>
        present == SelectSeq(layers, LAMBDA l : is_some(l) /\ is_table(Unwrap(l)))
    IN  [i \in 1..Len(present) |-> as_table(Unwrap(present[i]))]

\* C3: the serialized view has exactly the keys the layers define, and a key
\* that the layers define with non-table values only has the value of the
\* highest-precedence layer (gossip > user > environment > default) defining it.
C3_HighestLayerWins ==
    call.op = "serialize" =>
        LET merged == as_table(try_from(call.entries))
            defining(k) == {i \in 1..Len(LayerTables) : k \in DOMAIN LayerTables[i]}
        IN  /\ DOMAIN merged = UNION {DOMAIN LayerTables[i] : i \in 1..Len(LayerTables)}
            /\ \A k \in DOMAIN merged :
                  (\A i \in defining(k) : ~is_table(LayerTables[i][k]))
                      => merged[k] = LayerTables[Max(defining(k))][k]

\* default {a=1,b=2}, environment {a=3}, user {b=4}, gossip {a=5} give {a=5,b=4}
C3_Witness ==
    /\ call.op = "serialize"
    /\ default = Some(Table(Tbl2("a", Scalar(1), "b", Scalar(2))))
    /\ environment = Some(Table(Tbl1("a", Scalar(3))))
    /\ user = Some(Table(Tbl1("b", Scalar(4))))
    /\ gossip = Some(Table(Tbl1("a", Scalar(5))))
    /\ try_from(call.entries) = Table(Tbl2("a", Scalar(5), "b", Scalar(4)))

\* the value a dotted path leads to when every segment resolves from the root
RECURSIVE Resolve(_, _)
Resolve(value, fields) ==
    IF fields = <<>> THEN Some(value)
    ELSE IF is_some(get(value, Head(fields)))
         THEN Resolve(Unwrap(get(value, Head(fields))), Tail(fields))
         ELSE None

\* C10: an export name is in the export map only if every segment of its path
\* resolves from the root of the merged document, and is then mapped to the
\* value found at that path; a path with an unresolved segment is omitted.
C10_ExportsOnlyResolvedPaths ==
    call.op = "to_exported" =>
        LET cfg == try_from(serialize(default, environment, user, gossip))
        IN  \A key \in DOMAIN call.exports :
              LET at == Resolve(cfg, call.exports[key])
              IN  IF is_some(at)
                  THEN key \in DOMAIN call.map /\ call.map[key] = Unwrap(at)
                  ELSE key \notin DOMAIN call.map

\* C15: update called again with the same view returns false and leaves the
\* gossip layer and the stored incarnation as the first call left them,
\* however many times the call is repeated.
C15_RepeatedUpdateIgnored ==
    call.op = "update" /\ call.repeated =>
        /\ call.ret = FALSE
        /\ <<gossip, gossip_incarnation>> = call.before

\* a view that was accepted is delivered again: the layer is the one it
\* brought, and the call returned false
C15_Witness ==
    /\ call.op = "update" /\ call.repeated /\ call.ret = FALSE
    /\ is_some(call.view)
    /\ gossip_incarnation = Unwrap(call.view).incarnation
    /\ gossip = Some(Unwrap(call.view).value)
    /\ gossip_incarnation > 1

\* C19: update never modifies the default, the environment or the user layer.
C19_UpdateKeepsOtherLayers ==
    [][call'.op = "update" =>
         /\ default' = default
         /\ environment' = environment
         /\ user' = user]_vars

\* an update was accepted and the three other layers hold documents
C19_Witness ==
    /\ call.op = "update" /\ call.ret = TRUE
    /\ is_some(default) /\ is_some(environment) /\ is_some(user)
    /\ is_some(gossip)

\* C22: in every state reached by Cfg::new and calls of update, the gossip
\* layer is empty if and only if the stored incarnation is 0; so a view that
\* carries incarnation 0 is never accepted, not by a new aggregator either.
C22_GossipEmptyIffIncarnationZero ==
    /\ gossip = None <=> gossip_incarnation = 0
    /\ (call.op = "update" /\ is_some(call.view) /\ Unwrap(call.view).incarnation = 0)
          => call.ret = FALSE

\* a new aggregator was handed a view with incarnation 0 and kept its empty
\* gossip layer
C22_Witness ==
    /\ call.op = "update" /\ is_some(call.view)
    /\ Unwrap(call.view).incarnation = 0
    /\ call.before = <<None, 0>>
    /\ call.ret = FALSE
    /\ gossip = None /\ gossip_incarnation = 0

\* the layers that hold a key, from 1 (default) upwards among the layers
\* present, and those that hold a table at it
Holding(k) == {i \in 1..Len(LayerTables) : k \in DOMAIN LayerTables[i]}
TableAt(k) == {i \in Holding(k) : is_table(LayerTables[i][k])}

\* the layers that hold a table at k above a layer that holds a non-table
\* at k, itself above a layer that holds a table at k
TableAfterNonTable(k) ==
    {m \in TableAt(k) :
        \E i \in TableAt(k), j \in Holding(k) \ TableAt(k) : i < j /\ j < m}

\* the keys that the tables at k of the given layers have
KeysAt(k, layers) == UNION {DOMAIN as_table(LayerTables[i][k]) : i \in layers}

\* C25 as stated: when a layer holds a table at k, a layer above it a
\* non-table and a still higher layer a table, the merged value at k has only
\* entries of the layers at or above the highest layer that holds a table at
\* k after the non-table, and no entry of the lower layer's table survives.
C25_OnlyHighestTableSurvives ==
    call.op = "serialize" =>
        LET merged == as_table(try_from(call.entries))
        IN  \A k \in DOMAIN merged :
              (TableAfterNonTable(k) /= {} /\ is_table(merged[k]))
                 => DOMAIN as_table(merged[k])
                      \subseteq KeysAt(k, {m \in TableAt(k) : m >= Max(TableAfterNonTable(k))})

\* C25 (amended): when a layer holds a table at k, a layer above it a
\* non-table and a still higher layer a table, the merged value at k is made
\* of the layers above the highest layer that holds a non-table at k: when
\* there are such layers it is a table with exactly their keys at k, each
\* key that they hold with non-table values having the value of the highest
\* of them, and otherwise it is that non-table value; no entry of a table
\* below the non-table survives.
C25_SequentialReplacement ==
    call.op = "serialize" =>
        LET merged == as_table(try_from(call.entries))
        IN  \A k \in DOMAIN merged :
              TableAfterNonTable(k) /= {} =>
                 LET last == Max(Holding(k) \ TableAt(k))
                     above == {m \in TableAt(k) : m > last}
                 IN  IF above = {} THEN merged[k] = LayerTables[last][k]
                     ELSE /\ is_table(merged[k])
                          /\ DOMAIN as_table(merged[k]) = KeysAt(k, above)
                          /\ \A x \in DOMAIN as_table(merged[k]) :
                                LET with == {m \in above : x \in DOMAIN as_table(LayerTables[m][k])}
                                IN  (\A m \in with : ~is_table(as_table(LayerTables[m][k])[x]))
                                       => as_table(merged[k])[x]
                                            = as_table(LayerTables[Max(with)][k])[x]

\* default server = {database = 1, a = 2}, environment server = 3, user
\* server = {database = 4}, gossip server = {b = 5}: the view has server =
\* {database = 4, b = 5}, and merging the environment and the user layer first
\* gives another table than merging them one after the other
C25_Witness ==
    /\ call.op = "serialize"
    /\ default = Some(Table(Tbl2("a", Scalar(1), "server",
                                 Table(Tbl2("database", Scalar(1), "a", Scalar(2))))))
    /\ environment = Some(Table(Tbl1("server", Scalar(3))))
    /\ user = Some(Table(Tbl1("server", Table(Tbl1("database", Scalar(4))))))
    /\ gossip = Some(Table(Tbl1("server", Table(Tbl1("b", Scalar(5))))))
    /\ as_table(try_from(call.entries))["server"]
          = Table(Tbl2("database", Scalar(4), "b", Scalar(5)))
    /\ LET d == as_table(Unwrap(default))
           e == as_table(Unwrap(environment))
           u == as_table(Unwrap(user))
       IN  toml_merge(toml_merge(d, e).me, u).me /= toml_merge(d, toml_merge(e, u).me).me

\* the place of a key in the order a table is iterated in
Pos(key) == CHOOSE i \in DOMAIN KeyOrder : KeyOrder[i] = key

Rank(bucket) == CASE bucket = "scalars" -> 1 [] bucket = "arrays" -> 2 [] bucket = "tables" -> 3

\* C14: at the top level of the serialized view every scalar key comes before
\* every array key and every array key before every table key, wherever the
\* keys sit in the merged document; every top-level key of the merged
\* document is emitted exactly once, and the keys of one bucket keep the
\* order of the merged document.
C14_TopLevelBuckets ==
    call.op = "serialize" =>
        LET entries == call.entries
            merged == merged_table(default, environment, user, gossip)
        IN  /\ \A i, j \in DOMAIN entries :
                 i < j => /\ Rank(Bucket(entries[i][2])) <= Rank(Bucket(entries[j][2]))
                          /\ Bucket(entries[i][2]) = Bucket(entries[j][2])
                               => Pos(entries[i][1]) < Pos(entries[j][1])
            /\ \A key \in DOMAIN merged :
                 Cardinality({i \in DOMAIN entries : entries[i][1] = key}) = 1
            /\ \A i \in DOMAIN entries : entries[i][1] \in DOMAIN merged

\* a scalar, an array and a table are emitted, in that order, and in the
\* merged document the array key comes before the scalar key
C14_Witness ==
    /\ call.op = "serialize"
    /\ Len(call.entries) = 3
    /\ Bucket(call.entries[1][2]) = "scalars"
    /\ Bucket(call.entries[2][2]) = "arrays"
    /\ Bucket(call.entries[3][2]) = "tables"
    /\ Pos(call.entries[2][1]) < Pos(call.entries[1][1])

\* the keys of a table are in bucket order as the table is iterated
BucketOrdered(table) ==
    \A i, j \in DOMAIN Iter(table) :
        i < j => Rank(Bucket(table[Iter(table)[i]])) <= Rank(Bucket(table[Iter(table)[j]]))

\* the tables nested in a value, to the depth the documents have
NestedTables(value) ==
    IF ~is_table(value) THEN {}
    ELSE LET table == as_table(value)
             inner == {table[k] : k \in {key \in DOMAIN table : is_table(table[key])}}
         IN  {table} \cup {as_table(v) : v \in inner}
                     \cup UNION {{as_table(w[k]) : k \in {key \in DOMAIN as_table(w) :
                                                             is_table(as_table(w)[key])}}
                                 : w \in inner}

-----------------------------------------------------------------------------
(* Properties of the compile pass *)

Compiled == call.op = "compile"

\* C7 as stated: a pass that directly follows a pass that returned Ok, with
\* the same context and no outside modification in between, writes no file
\* and returns changed = false.
C7_SecondPassWritesNothing ==
    (Compiled /\ call.again) => (call.ok /\ call.touched = {} /\ ~call.changed)

\* C7 (amended): a pass that directly follows a pass that returned Ok, with
\* the same context and no outside modification in between, writes no file
\* and returns changed = false, provided every destination file can be read.
C7_SecondPassWritesNothingIfReadable ==
    (Compiled /\ call.again /\ \A t \in Templates : files[t].mode /= "wo")
        => (call.ok /\ call.touched = {} /\ ~call.changed)

\* a second pass over two existing, readable files after a gossip update
C7_Witness ==
    /\ Compiled /\ call.again /\ call.ok
    /\ gossip_incarnation > 0
    /\ \A t \in Templates :
          /\ files[t].mode /= "wo"
          /\ files[t].content = Some(render(t, ctx).text)
    /\ call.touched = {} /\ ~call.changed

\* the rendered text hashes differently from the file the pass found; a
\* missing or unreadable file differs from every text
Differs(text, file) ==
    \/ ~is_some(file.content)
    \/ file.mode = "wo"
    \/ hash_string(Unwrap(file.content)) /= hash_string(text)

\* C8: in a pass that returns Ok a destination file is written if and only
\* if the hash of the rendered text differs from the hash of the file found,
\* a missing or unreadable file counting as different, and changed is true if
\* and only if a file was written.
C8_WrittenIffHashDiffers ==
    (Compiled /\ call.ok) =>
        /\ \A t \in Templates :
              t \in call.written <=> Differs(render(t, ctx).text, call.before[t])
        /\ call.changed <=> call.written /= {}

\* an Ok pass that wrote an unreadable file and skipped an up-to-date one
C8_Witness ==
    /\ Compiled /\ call.ok /\ call.changed
    /\ \E t, u \in Templates :
          /\ call.before[t].mode = "wo"
          /\ call.before[t].content = Some(render(t, ctx).text)
          /\ call.written = {t}
          /\ u /= t
          /\ call.before[u] = files[u]

\* C9: when a template fails to render, the pass returns the error before
\* any destination file has been modified by that pass.
C9_RenderFailureTouchesNothing ==
    (Compiled /\ call.err = "render") => call.touched = {}

\* the pass follows a pass that returned Ok, with only calls of update and no
\* outside modification of the files in between
Recompiled == Compiled /\ is_some(call.since)

\* the templates whose rendered text is not the one of the pass before
ChangedTemplates ==
    {t \in Templates :
        render(t, Unwrap(call.since).context).text /= render(t, ctx).text}

\* the context changed between the two passes so that every template still
\* renders and exactly one renders another text
OneTemplateChanged ==
    /\ Recompiled
    /\ \A t \in Templates : render(t, ctx).ok
    /\ Cardinality(ChangedTemplates) = 1

\* C16 as stated, for the passes that return Ok: after a pass that returned
\* Ok, a change of the context that changes the rendered text of exactly one
\* template makes the next pass rewrite exactly that template's file and
\* return changed = true, every other destination file being left untouched.
C16_OnlyChangedTemplateRewritten ==
    OneTemplateChanged /\ call.ok =>
        /\ call.changed
        /\ call.touched = ChangedTemplates
        /\ \A t \in Templates \ ChangedTemplates : files[t] = call.before[t]

\* C16 (amended): the same, provided every destination file can be read and
\* the changed template's file can be written.
C16_OnlyChangedTemplateRewrittenIfAccessible ==
    (/\ OneTemplateChanged
     /\ \A t \in Templates : call.before[t].mode /= "wo"
     /\ \A t \in ChangedTemplates : call.before[t].mode = "rw")
        => /\ call.ok /\ call.changed
           /\ call.touched = ChangedTemplates
           /\ call.written = ChangedTemplates
           /\ \A t \in ChangedTemplates : files[t].content = Some(render(t, ctx).text)
           /\ \A t \in Templates \ ChangedTemplates : files[t] = call.before[t]

\* an update changed what t2 renders and nothing of t1: the pass rewrote the
\* file of t2 and left the file of t1, which was there, as it was
C16_Witness ==
    /\ OneTemplateChanged /\ call.ok /\ call.changed
    /\ ChangedTemplates = {"t2"}
    /\ call.written = {"t2"}
    /\ \A t \in Templates : call.before[t].mode = "rw" /\ is_some(call.before[t].content)
    /\ files["t1"] = call.before["t1"]
    /\ files["t2"] /= call.before["t2"]

\* an update was accepted since the pass before, and every template renders
\* the text its destination file holds
UpdatedWithoutEffect ==
    /\ Recompiled
    /\ gossip_incarnation > Unwrap(call.since).incarnation
    /\ \A t \in Templates :
          /\ render(t, ctx).ok
          /\ call.before[t].content = Some(render(t, ctx).text)

\* C17 as stated: after a pass that returned Ok, an update that is accepted
\* but leaves the rendered text of every template equal to what is on disk is
\* followed by a pass that writes no file and returns changed = false.
C17_AcceptedUpdateWithoutEffect ==
    UpdatedWithoutEffect => (call.ok /\ call.touched = {} /\ ~call.changed)

\* C17 (amended): the same, provided every destination file can be read.
C17_AcceptedUpdateWithoutEffectIfReadable ==
    (UpdatedWithoutEffect /\ \A t \in Templates : call.before[t].mode /= "wo")
        => (call.ok /\ call.touched = {} /\ ~call.changed /\ files = call.before)

\* the accepted update changed the context, not what the templates print
C17_Witness ==
    /\ UpdatedWithoutEffect
    /\ Unwrap(call.since).context /= ctx
    /\ \A t \in Templates : call.before[t].mode /= "wo"
    /\ call.ok /\ call.touched = {} /\ ~call.changed

\* C20: after a pass that returned Ok the content of every template's
\* destination file is exactly the text rendered in this pass; a write
\* replaces the file, so nothing of a longer old content survives.
C20_FilesHoldRenderedText ==
    (Compiled /\ call.ok) =>
        \A t \in Templates :
            /\ render(t, ctx).ok
            /\ files[t].content = Some(render(t, ctx).text)

\* a file that held a text was rewritten with the empty text
C20_Witness ==
    /\ Compiled /\ call.ok
    /\ \E t \in call.written :
          /\ is_some(call.before[t].content)
          /\ Unwrap(call.before[t].content) /= EmptyText
          /\ render(t, ctx).text = EmptyText
          /\ files[t].content = Some(EmptyText)

-----------------------------------------------------------------------------
(* Properties of toml_merge *)

\* the number of tables nested along keys that hold a table in both documents
RECURSIVE SharedNesting(_, _)
SharedNesting(t, f) ==
    LET both == {k \in DOMAIN t \cap DOMAIN f : is_table(t[k]) /\ is_table(f[k])}
    IN  IF both = {} THEN 0
        ELSE 1 + Max({SharedNesting(as_table(t[k]), as_table(f[k])) : k \in both})

\* the number of tables nested below the root of one document
Nesting(t) == SharedNesting(t, t)

\* overlay wins per key: tables on both sides merge, anything else is replaced
RECURSIVE OverlayWins(_, _)
OverlayWins(base, overlay) ==
    [k \in DOMAIN base \cup DOMAIN overlay |->
        IF k \notin DOMAIN overlay THEN base[k]
        ELSE IF k \in DOMAIN base /\ is_table(base[k]) /\ is_table(overlay[k])
             THEN Table(OverlayWins(as_table(base[k]), as_table(overlay[k])))
             ELSE overlay[k]]

Merged == call.op = "toml_merge"

\* C4: when the nesting shared by base and overlay stays within the depth
\* bound, toml_merge succeeds and its result keeps every key that is only in
\* base, merges recursively the keys that hold a table on both sides, and
\* takes the overlay value whole for every other key of the overlay.
C4_OverlayWinsPerKey ==
    (Merged /\ SharedNesting(call.me, call.other) <= TOML_MAX_MERGE_DEPTH)
        => (call.ok /\ me = OverlayWins(call.me, call.other))

\* a merge that recursed into key a, replaced the table at b by a scalar and
\* kept a key of base the overlay does not have
C4_Witness ==
    /\ Merged /\ call.ok
    /\ DOMAIN call.me = {"a", "b"} /\ DOMAIN call.other = {"a", "b"}
    /\ is_table(call.me["a"]) /\ is_table(call.other["a"])
    /\ is_table(call.me["b"]) /\ ~is_table(call.other["b"])
    /\ DOMAIN as_table(call.me["a"]) = {"a", "b"}
    /\ DOMAIN as_table(call.other["a"]) = {"b"}
    /\ is_array(as_table(call.me["a"])["b"])
    /\ me["b"] = call.other["b"]
    /\ as_table(me["a"])["a"] = as_table(call.me["a"])["a"]
    /\ as_table(me["a"])["b"] = as_table(call.other["a"])["b"]

\* C5 as stated: two documents that each nest deeper than the bound never
\* merge without the depth error.
C5_DeepDocumentsFail ==
    (Merged /\ Nesting(call.me) > TOML_MAX_MERGE_DEPTH
            /\ Nesting(call.other) > TOML_MAX_MERGE_DEPTH)
        => ~call.ok

\* C5 (amended): toml_merge returns the depth error exactly when base and
\* overlay share a path of more than TOML_MAX_MERGE_DEPTH nested tables (keys
\* holding a table in both); documents sharing exactly 30 nested tables merge.
C5_DepthErrorIffSharedNestingExceeds ==
    Merged => (call.ok <=> SharedNesting(call.me, call.other) <= TOML_MAX_MERGE_DEPTH)

\* both documents nest one table deeper than the bound along the same keys
C5_Witness ==
    /\ Merged /\ ~call.ok
    /\ SharedNesting(call.me, call.other) = TOML_MAX_MERGE_DEPTH + 1

\* C6: merging an empty overlay leaves the document unchanged, and merging a
\* document into an empty table yields that document.
C6_IdentityLaws ==
    Merged =>
        /\ call.other = EmptyTable => (call.ok /\ me = call.me)
        /\ call.me = EmptyTable => (call.ok /\ me = call.other)

\* a document with two keys and a nested table merged into an empty table
C6_Witness ==
    /\ Merged /\ call.ok
    /\ call.me = EmptyTable
    /\ DOMAIN call.other = {"a", "b"}
    /\ is_table(call.other["a"])
    /\ me = call.other

\* the keys of the overlay that hold more than TOML_MAX_MERGE_DEPTH nested
\* tables and are not in base, or hold no table there
DeepUnshared ==
    {k \in DOMAIN call.other :
        /\ is_table(call.other[k])
        /\ 1 + Nesting(as_table(call.other[k])) > TOML_MAX_MERGE_DEPTH
        /\ ~is_toml_value_a_table(k, call.me)}

\* C23: the depth guard counts only the recursion into keys that hold a table
\* in base and overlay: what the overlay nests deeper than the bound under a
\* key that base does not have, or has with a value that is no table, is
\* copied into base whole, and the merge succeeds unless the keys that hold a
\* table on both sides exceed the bound.
C23_DepthGuardCountsSharedTablesOnly ==
    (Merged /\ SharedNesting(call.me, call.other) <= TOML_MAX_MERGE_DEPTH)
        => /\ call.ok
           /\ \A k \in DeepUnshared : me[k] = call.other[k]

\* the overlay nests deeper than the bound under both keys; base has a table
\* at one and no table at the other, and the merge succeeds
C23_Witness ==
    /\ Merged /\ call.ok
    /\ DOMAIN call.me = {"a", "b"} /\ DOMAIN call.other = {"a", "b"}
    /\ is_table(call.me["a"]) /\ ~is_table(call.me["b"])
    /\ Nesting(call.other) > TOML_MAX_MERGE_DEPTH + 1
    /\ DeepUnshared = {"b"}
    /\ me["b"] = call.other["b"]
    /\ me["a"] /= call.me["a"]

-----------------------------------------------------------------------------
(* Properties of Cfg::new *)

\* a layer file that is there and is not a TOML document that can be read
Broken(file) ==
    /\ file /= Missing
    /\ \/ file \in {Denied, Unreadable}
       \/ ~is_some(toml_from_str(file[2]))

\* the layer files Cfg::new went to, in the order it loads them
LayerFiles ==
    <<At(<<call.pkg_root, "default.toml">>)>> \o
    (IF is_some(call.user_dir) THEN <<At(<<Unwrap(call.user_dir), "user.toml">>)>>
     ELSE <<>>)

\* C11: a missing default.toml or user.toml leaves its layer empty and is no
\* error; every other failure to read or parse a layer file, a read error
\* after the file was opened included, makes Cfg::new fail, so no malformed or
\* unreadable layer is silently dropped.
C11_NoLayerSilentlyDropped ==
    call.op = "new" =>
        /\ (\E i \in DOMAIN LayerFiles : Broken(LayerFiles[i])) => ~call.ok
        /\ call.ok /\ LayerFiles[1] = Missing => default = None
        /\ call.ok /\ LayerFiles[2] = Missing => user = None
        /\ (\A i \in DOMAIN LayerFiles : LayerFiles[i] = Missing)
             => call.err /= <<"TomlParser">>

\* what Cfg::new does with a layer file: only a file that was read and is not
\* a TOML document fails it; a file that cannot be opened or read is an empty
\* layer
C11_OnlyMalformedFails ==
    call.op = "new" =>
        /\ call.err = <<"TomlParser">>
             <=> \E i \in DOMAIN LayerFiles : LayerFiles[i] = Holds(Garbage)
        /\ call.ok /\ LayerFiles[1] \in {Missing, Denied, Unreadable} => default = None
        /\ call.ok /\ LayerFiles[2] \in {Missing, Denied, Unreadable} => user = None

\* default.toml cannot be read after it was opened, and Cfg::new returns Ok
C11_Witness ==
    /\ call.op = "new" /\ call.ok
    /\ LayerFiles[1] = Unreadable
    /\ default = None
    /\ is_some(user)

\* C12: user.toml is looked for in the recommended directory first, which is
\* selected when the file is there, also when the deprecated one has it too;
\* when only the deprecated directory has it, that one is selected and the
\* deprecation notice is printed; when neither has it the recommended one is
\* selected; the user layer is loaded from the selected directory.
C12_UserConfigPath ==
    call.op = "new" /\ is_some(call.user_dir) =>
        LET recommended == At(<<"user", "user.toml">>)
            deprecated == At(<<"svc", "user.toml">>)
            selected == At(<<Unwrap(call.user_dir), "user.toml">>)
        IN  /\ recommended /= Missing => call.user_dir = Some("user")
            /\ recommended = Missing /\ deprecated /= Missing
                 => call.user_dir = Some("svc") /\ call.notice
            /\ recommended = Missing /\ deprecated = Missing
                 => call.user_dir = Some("user")
            /\ call.ok => IF selected \in {Holds(TomlText(t)) : t \in DiskDocs}
                          THEN user = Some(Table(Unwrap(toml_from_str(selected[2]))))
                          ELSE user = None

\* both directories have a user.toml, with different documents, and the user
\* layer is the one of the recommended directory
C12_Witness ==
    /\ call.op = "new" /\ call.ok
    /\ At(<<"user", "user.toml">>) = Holds(TomlText(Tbl1("a", Scalar(1))))
    /\ At(<<"svc", "user.toml">>) = Holds(TomlText(Tbl1("b", Scalar(4))))
    /\ call.user_dir = Some("user")
    /\ user = Some(Table(Tbl1("a", Scalar(1))))

\* only the deprecated directory has a user.toml: it is loaded, with the notice
C12_WitnessDeprecated ==
    /\ call.op = "new" /\ call.ok
    /\ At(<<"user", "user.toml">>) = Missing
    /\ call.user_dir = Some("svc") /\ call.notice
    /\ user = Some(Table(Tbl1("b", Scalar(4))))

\* the environment step of Cfg::new ran
EnvironmentLoaded ==
    /\ call.op = "new"
    /\ \E i \in DOMAIN call.steps : call.steps[i] = "environment"

\* C13: when the HAB_<NAME> variable is not present the environment layer is
\* empty and there is no error; when it is present its value is parsed as TOML
\* first and that result is used whenever it parses, JSON is tried only after
\* TOML failed, and only when both fail does loading fail, with the error
\* that names the variable.
C13_EnvironmentParsedWhenPresent ==
    EnvironmentLoaded =>
        LET var_name == var_name_of(call.package)
            text == IF env[var_name] = NotUnicode THEN Garbage ELSE env[var_name]
        IN  IF var_name \notin DOMAIN env
            THEN call.ok /\ environment = None /\ call.tried = <<>>
            ELSE /\ call.tried /= <<>> /\ call.tried[1] = "toml"
                 /\ is_some(toml_from_str(text))
                      => /\ call.ok /\ call.tried = <<"toml">>
                         /\ environment = Some(Table(Unwrap(toml_from_str(text))))
                 /\ ~is_some(toml_from_str(text)) /\ is_some(json_from_str(text))
                      => /\ call.ok /\ call.tried = <<"toml", "json">>
                         /\ environment = Some(Table(Unwrap(json_from_str(text))))
                 /\ ~is_some(toml_from_str(text)) /\ ~is_some(json_from_str(text))
                      => /\ ~call.ok
                         /\ call.err = <<"BadEnvConfig", var_name>>

\* what load_environment does: a value that is not Unicode is taken for a
\* variable that is not present
C13_EnvironmentParsedWhenUnicode ==
    EnvironmentLoaded =>
        LET var_name == var_name_of(call.package)
        IN  IF var_name \notin DOMAIN env \/ env[var_name] = NotUnicode
            THEN call.ok /\ environment = None /\ call.tried = <<>>
            ELSE LET text == env[var_name]
                 IN  /\ call.tried /= <<>> /\ call.tried[1] = "toml"
                     /\ is_some(toml_from_str(text))
                          => /\ call.ok /\ call.tried = <<"toml">>
                             /\ environment = Some(Table(Unwrap(toml_from_str(text))))
                     /\ ~is_some(toml_from_str(text)) /\ is_some(json_from_str(text))
                          => /\ call.ok /\ call.tried = <<"toml", "json">>
                             /\ environment = Some(Table(Unwrap(json_from_str(text))))
                     /\ ~is_some(toml_from_str(text)) /\ ~is_some(json_from_str(text))
                          => /\ ~call.ok
                             /\ call.err = <<"BadEnvConfig", var_name>>

\* HAB_MY_DB is set to bytes that are not Unicode, and Cfg::new returns Ok
C13_Witness ==
    /\ EnvironmentLoaded /\ call.ok
    /\ call.package = <<"m", "y", "-", "d", "b">>
    /\ <<"H", "A", "B", "_", "M", "Y", "_", "D", "B">> \in DOMAIN env
    /\ env[<<"H", "A", "B", "_", "M", "Y", "_", "D", "B">>] = NotUnicode
    /\ environment = None

-----------------------------------------------------------------------------
(* Properties of CfgRenderer::new *)

RendererBuilt == call.op = "CfgRenderer::new"

\* the entries of the directory, as a set
DirEntries == {templates_path.entries[i] : i \in DOMAIN templates_path.entries}

\* the regular files whose registration is tried, and those among them that
\* hold no template
Visible == {e \in DirEntries : e[2] \in {"file", "malformed"}}
Unregistrable == {e \in Visible : e[2] = "malformed"}

\* C21 as stated: CfgRenderer::new registers exactly the regular files of the
\* directory, each under its file name, skipping directories and non-regular
\* entries, and fails atomically: when a file does not register an error is
\* returned and there is no CfgRenderer.
C21_RegistersExactlyRegularFiles ==
    RendererBuilt =>
        IF call.ok
        THEN /\ is_some(renderer)
             /\ DOMAIN Unwrap(renderer) = {file_name(e) : e \in {d \in DirEntries : is_regular(d)}}
             /\ \A e \in DirEntries :
                   is_regular(e) => Unwrap(renderer)[file_name(e)] = path(e)
        ELSE /\ renderer = None
             /\ Unregistrable /= {}

\* the last entry of the listing that is registered under a name
LastNamed(name) ==
    LET entries == templates_path.entries
        at == {i \in DOMAIN entries :
                 /\ entries[i] \in Visible
                 /\ to_string_lossy(file_name(entries[i])) = name}
    IN  entries[CHOOSE i \in at : \A j \in at : j <= i]

\* C21 (amended): when the directory can be read, CfgRenderer::new registers
\* exactly the regular files that read_dir yields and whose type can be
\* read, each under the lossy UTF-8 form of its file name, the last file of a
\* name winning; directories, other entries and entries that cannot be read
\* are skipped; a directory that cannot be read gives a CfgRenderer without
\* templates; and when a file does not register an error is returned and
\* there is no CfgRenderer.
C21_RegistersReadableRegularFiles ==
    RendererBuilt =>
        IF ~templates_path.readable
        THEN call.ok /\ renderer = Some(NoTemplates)
        ELSE IF Unregistrable /= {}
        THEN ~call.ok /\ renderer = None /\ call.err = <<"TemplateFileError">>
        ELSE /\ call.ok /\ is_some(renderer)
             /\ DOMAIN Unwrap(renderer) = {to_string_lossy(file_name(e)) : e \in Visible}
             /\ \A name \in DOMAIN Unwrap(renderer) :
                   Unwrap(renderer)[name] = path(LastNamed(name))

\* two templates are registered under their names next to a directory that
\* is skipped
C21_Witness ==
    /\ RendererBuilt /\ call.ok
    /\ templates_path.readable
    /\ \E e \in DirEntries : e[2] = "dir"
    /\ renderer = Some([n \in {<<"a">>, <<"b">>} |-> <<"templates", n>>])

\* a file that holds no template comes after one that registered: there is
\* no CfgRenderer
C21_WitnessAtomic ==
    /\ RendererBuilt /\ ~call.ok /\ renderer = None
    /\ Len(templates_path.entries) >= 2
    /\ templates_path.entries[1][2] = "file"
    /\ templates_path.entries[2][2] = "malformed"

\* the table after each layer was merged, an error of a merge being passed over
AfterDefault == merge_layer(EmptyTable, default)
AfterEnvironment == merge_layer(AfterDefault, environment)
AfterUser == merge_layer(AfterEnvironment, user)
AfterGossip == merge_layer(AfterUser, gossip)

\* the keys of the overlay at which the merge into base meets the depth error
TooDeep(base, overlay) ==
    {k \in DOMAIN base \cap DOMAIN overlay :
        /\ is_table(base[k]) /\ is_table(overlay[k])
        /\ 1 + SharedNesting(as_table(base[k]), as_table(overlay[k]))
             > TOML_MAX_MERGE_DEPTH}

\* the keys of the overlay that are visited before the merge fails
BeforeFailure(base, overlay) ==
    {k \in DOMAIN overlay : \A f \in TooDeep(base, overlay) : Pos(k) < Pos(f)}

\* merging the layer into base gave `after`: every key base had is still
\* there, and every key of the layer visited before the failure, or every key
\* when there is none, holds what overlay-wins gives it
LayerMerged(base, layer, after) ==
    IF ~is_some(layer) THEN after = base
    ELSE LET overlay == as_table(Unwrap(layer))
         IN  /\ DOMAIN base \subseteq DOMAIN after
             /\ \A k \in BeforeFailure(base, overlay) :
                   /\ k \in DOMAIN after
                   /\ after[k] = OverlayWins(base, overlay)[k]
             /\ \A k \in DOMAIN after \ DOMAIN base : k \in BeforeFailure(base, overlay)

\* C24: building the merged view does not fail because of a merge error: when
\* the merge of a layer returns the depth error, the keys of that layer merged
\* before the failure stay in the result, the layers above it are still merged
\* on top, and the table that results is the one serialized.
C24_MergeErrorsPassedOver ==
    call.op = "serialize" =>
        /\ LayerMerged(EmptyTable, default, AfterDefault)
        /\ LayerMerged(AfterDefault, environment, AfterEnvironment)
        /\ LayerMerged(AfterEnvironment, user, AfterUser)
        /\ LayerMerged(AfterUser, gossip, AfterGossip)
        /\ try_from(call.entries) = Table(AfterGossip)

\* the merge of the environment layer failed at key b after key a was merged:
\* the view has a from the environment layer, not its key c, the table at b
\* of the default layer, and the key of the user layer
C24_Witness ==
    /\ call.op = "serialize"
    /\ is_some(default) /\ is_some(environment) /\ user = Some(Table(Tbl1("database", Scalar(4))))
    /\ TooDeep(AfterDefault, as_table(Unwrap(environment))) = {"b"}
    /\ LET view == as_table(try_from(call.entries))
       IN  /\ DOMAIN view = {"a", "b", "database"}
           /\ view["a"] = Scalar(3)
           /\ view["b"] = as_table(Unwrap(default))["b"]
           /\ view["database"] = Scalar(4)

=============================================================================
